---------------------------- MODULE Spec2Model ----------------------------
(***************************************************************************)
(* Provider resolution and dispatch core of the allama gateway.            *)
(*                                                                         *)
(* The registry (providers, models) is filled through Storage.AddProvider  *)
(* and Storage.AddModel before the server runs; afterwards requests to     *)
(* /api/chat, /api/generate and /api/show are handled one at a time, each  *)
(* one stepping through ReceivedRaw -> ModelExtracted -> ProviderResolved  *)
(* -> PassThrough | Translate -> RepliedOrFailed as router.go does; a      *)
(* panic may strike the handling at any point.  The listing endpoints      *)
(* /api/v1/models and /api/tags are modelled in a specification of their   *)
(* own (ListSpec).                                                         *)
(***************************************************************************)
EXTENDS Naturals, Sequences, FiniteSets, TLC

VARIABLES
    phase,         \* "startup" while the registry is filled, then "serving"
    providers,     \* rows of table providers, in insertion order (id = index)
    models,        \* rows of table models, in insertion order
    pc,            \* position of the request being handled
    req,           \* the inbound request: endpoint, raw body, headers
    storeErr,      \* storage failures met while handling the request
    storeReads,    \* names of the Storage reads made for the request
    resolved,      \* determineProviderFromModel has returned
    providerName,  \* result of determineProviderFromModel
    prov,          \* id of the row GetProviderByName returned (0: none)
    path,          \* "none" | "PassThrough" | "Translate" | "Local"
    calls,         \* upstream calls issued for the request, in order
    upstream,      \* what the upstream call returned
    replies,       \* replies written to the caller for the request, in order
    fault,         \* a panic was raised while handling the request
    listed,        \* replies of the listing endpoints so far, in order
    unit           \* a run of one function on its own: arguments, results

vars == <<phase, providers, models, pc, req, storeErr, storeReads, resolved,
          providerName, prov, path, calls, upstream, replies, fault,
          listed,
          unit>>

---------------------------------------------------------------------------
(* Bounds of the model *)

MaxProviders == 2
MaxModels == 2
MaxListings == 2
MaxStringLen == 2
MaxSeconds == 1
NanosPerSecond == 3
MaxEnvelopes == 3
MaxHandlers == 2
MaxMessages == 3
MaxReplies == 2

(* Provider names: the native pass-through kind, a translated kind, and a  *)
(* name outside the closed set CreateProvider knows.                       *)
ProviderNames == {"ollama", "openai", "custom"}

(* Model ids the registry may hold and a request may name. *)
ModelIDs == {"a-1", "b-1"}

Endpoints == {"chat", "generate", "show"}

(* HTTP status codes used by router.go *)
StatusOK == 200
StatusBadRequest == 400
StatusInternalServerError == 500

---------------------------------------------------------------------------
(* Requests.  The raw body is described by what the parsers of router.go   *)
(* can observe of it: whether reading it succeeds, whether it is JSON,     *)
(* the value of its model field ("" when absent), whether the remaining    *)
(* fields have the types of the endpoint's request struct, and whether it  *)
(* carries members the request structs do not declare (extra: a stream     *)
(* member, options).                                                       *)

UnreadableBody ==
    [readable |-> FALSE, json |-> FALSE, model |-> "", shapeOK |-> FALSE,
     extra |-> FALSE, text |-> ""]

NotJSONBody ==
    [readable |-> TRUE, json |-> FALSE, model |-> "", shapeOK |-> FALSE,
     extra |-> FALSE, text |-> ""]

(* A JSON body without a model field (or with an empty one). *)
NoModelBody ==
    [readable |-> TRUE, json |-> TRUE, model |-> "", shapeOK |-> TRUE,
     extra |-> FALSE, text |-> "hi"]

JSONBodies ==
    [readable : {TRUE}, json : {TRUE}, model : ModelIDs,
     shapeOK : BOOLEAN, extra : BOOLEAN, text : {"hi"}]
        \cup {NoModelBody}

Bodies == {UnreadableBody, NotJSONBody} \cup JSONBodies

(* The headers of a request that carries a body. *)
HeaderSets == {{"Content-Type", "Content-Length"}}

NoRequest ==
    [endpoint |-> "none", body |-> UnreadableBody, headers |-> {}]

NoStoreErr == [providers |-> FALSE, models |-> {}, byName |-> FALSE]

NoUpstream == [kind |-> "none"]

(* What an Ollama upstream may answer to a forwarded request: a status,    *)
(* a body and the Content-Type header of the response.                     *)
UpstreamResponses ==
    [kind : {"response"}, status : {200, 404},
     body : {"{\"done\":true}", "model not found"},
     ctype : {"application/json", "text/plain"}]

ForwardResults ==
    UpstreamResponses \cup {[kind |-> "error", err |-> "connection refused"]}

(* What an adapter's Chat may return: (text, nil) or ("", err).            *)
ChatResults ==
    {[kind |-> "text", text |-> "Hello"],
     [kind |-> "error", err |-> "quota exceeded"]}

---------------------------------------------------------------------------
(* Storage (storage.go) *)

RECURSIVE SelectActive(_)
SelectActive(rows) ==
    IF rows = <<>> THEN <<>>
    ELSE IF Head(rows).active
         THEN <<Head(rows)>> \o SelectActive(Tail(rows))
         ELSE SelectActive(Tail(rows))

(* Variant: the active providers are returned newest first. *)
GetActiveProvidersNewestFirst ==
    LET rows == SelectActive(providers)
    IN  [i \in 1..Len(rows) |-> rows[Len(rows) + 1 - i]]

(* SELECT ... FROM providers WHERE is_active = true *)
GetActiveProviders == SelectActive(providers)

RECURSIVE SelectByProvider(_, _)
SelectByProvider(rows, providerID) ==
    IF rows = <<>> THEN <<>>
    ELSE IF Head(rows).provider_id = providerID
         THEN <<Head(rows)>> \o SelectByProvider(Tail(rows), providerID)
         ELSE SelectByProvider(Tail(rows), providerID)

(* SELECT ... FROM models WHERE provider_id = ?  (is_active is not tested) *)
GetModelsByProviderID(providerID) == SelectByProvider(models, providerID)

(* SELECT ... FROM providers WHERE name = ?  : the first row, 0 if none    *)
GetProviderByName(name) ==
    IF \E i \in 1..Len(providers) : providers[i].name = name
    THEN CHOOSE i \in 1..Len(providers) :
            /\ providers[i].name = name
            /\ \A j \in 1..(i - 1) : providers[j].name # name
    ELSE 0

---------------------------------------------------------------------------
(* Provider resolution (router.go, determineProviderFromModel) *)

(* Variant: any row matches, whatever its model id. *)
HasModelAny(rows, modelID) == Len(rows) > 0

(* for _, model := range models { if model.ModelID == modelID ... } *)
HasModel(rows, modelID) == \E i \in 1..Len(rows) : rows[i].model_id = modelID

RECURSIVE ScanProvidersAbortOnError(_, _, _)
(* Variant: the scan gives up at the first provider whose models cannot    *)
(* be read.                                                                *)
ScanProvidersAbortOnError(provs, modelID, failed) ==
    IF provs = <<>> THEN ""
    ELSE IF Head(provs).id \in failed THEN ""
         ELSE IF HasModel(GetModelsByProviderID(Head(provs).id), modelID)
              THEN Head(provs).name
              ELSE ScanProvidersAbortOnError(Tail(provs), modelID, failed)

RECURSIVE ScanProviders(_, _, _)
ScanProviders(provs, modelID, failed) ==
    IF provs = <<>> THEN ""
    ELSE IF Head(provs).id \in failed
         THEN ScanProviders(Tail(provs), modelID, failed)
         ELSE IF HasModel(GetModelsByProviderID(Head(provs).id), modelID)
              THEN Head(provs).name
              ELSE ScanProviders(Tail(provs), modelID, failed)

(* err gives the storage failures of this call: err.providers when         *)
(* GetActiveProviders fails, err.models the ids of the providers whose     *)
(* GetModelsByProviderID fails.                                            *)
determineProviderFromModel(modelID, err) ==
    IF modelID = "" THEN ""
    ELSE IF err.providers THEN ""
    ELSE ScanProviders(GetActiveProviders, modelID, err.models)

(* Variant: an adapter is built for every provider name. *)
CreateProviderForAny(name) == TRUE

(* provider.CreateProvider: TRUE when an implementation exists (not nil) *)
CreateProvider(name) == name \in {"openai", "anthropic", "ollama"}

---------------------------------------------------------------------------
(* The variables of the runs of single functions on their own; the        *)
(* gateway leaves them alone.                                              *)
unitVars == <<unit>>

NoRun == [step |-> "none"]

UnitIdle ==
    /\ unit = NoRun

GatewayInit ==
    /\ phase = "startup"
    /\ providers = <<>>
    /\ models = <<>>
    /\ pc = "idle"
    /\ req = NoRequest
    /\ storeErr = NoStoreErr
    /\ storeReads = {}
    /\ resolved = FALSE
    /\ providerName = ""
    /\ prov = 0
    /\ path = "none"
    /\ calls = <<>>
    /\ upstream = NoUpstream
    /\ replies = <<>>
    /\ fault = FALSE
    /\ listed = <<>>

Init == GatewayInit /\ UnitIdle

requestVars == <<pc, req, storeErr, storeReads, resolved, providerName,
                 prov, path, calls, upstream, replies, fault>>

(* Storage.AddProvider: INSERT INTO providers; the row id is the rowid.    *)
AddProvider(name, active) ==
    /\ phase = "startup"
    /\ Len(providers) < MaxProviders
    /\ providers' = Append(providers,
                       [id |-> Len(providers) + 1, name |-> name,
                        active |-> active])
    /\ UNCHANGED <<phase, models, requestVars, listed, unitVars>>

(* Variant: rows are also inserted while requests are served, as a call   *)
(* of FetchModelsForProvider from a handler would do.                      *)
AddModelAnytime(providerID, modelID, active) ==
    /\ Len(models) < MaxModels
    /\ providerID \in 1..Len(providers)
    /\ models' = Append(models,
                    [provider_id |-> providerID, model_id |-> modelID,
                     active |-> active])
    /\ UNCHANGED <<phase, providers, requestVars, listed, unitVars>>

(* Storage.AddModel: INSERT INTO models. *)
AddModel(providerID, modelID, active) ==
    /\ phase = "startup"
    /\ Len(models) < MaxModels
    /\ providerID \in 1..Len(providers)
    /\ models' = Append(models,
                    [provider_id |-> providerID, model_id |-> modelID,
                     active |-> active])
    /\ UNCHANGED <<phase, providers, requestVars, listed, unitVars>>

(* main: ginRouter.Run, after which requests are served. *)
StartServing ==
    /\ phase = "startup"
    /\ phase' = "serving"
    /\ UNCHANGED <<providers, models, requestVars, listed, unitVars>>

---------------------------------------------------------------------------
(* Replies and upstream calls *)

(* models.ErrorResponse{Error: ...}; the error string is kept as the list  *)
(* of the pieces the code concatenates.                                    *)
ErrorResponse(status, pieces) ==
    [status |-> status, ctype |-> "application/json",
     body |-> [error |-> pieces]]

(* c.Data(status, "application/json", bytes) *)
DataResponse(status, bytes) ==
    [status |-> status, ctype |-> "application/json", body |-> bytes]

(* OllamaResponseTransformer.TransformChatResponse: the JSON object that   *)
(* json.Marshal emits, as the record of its members.                       *)
TransformChatResponse(content, modelID) ==
    [model |-> modelID,
     created_at |-> "now",
     message |-> [role |-> "assistant", content |-> content],
     done |-> TRUE]

(* OllamaResponseTransformer.TransformGenerateResponse *)
TransformGenerateResponse(content, modelID) ==
    [model |-> modelID,
     created_at |-> "now",
     response |-> content,
     done |-> TRUE]

(* The bytes of a request body, as far as two bodies can be told apart.    *)
RawBytes(body) == [model |-> body.model, text |-> body.text,
                   shapeOK |-> body.shapeOK, extra |-> body.extra]

(* json.Marshal(genReq) after ShouldBindJSON(&genReq): only the fields of  *)
(* models.GenerateRequest survive the round trip.                          *)
MarshalGenerateRequest(body) ==
    [model |-> body.model, text |-> body.text,
     shapeOK |-> TRUE, extra |-> FALSE]

(* Header filter of forwardOllamaRequestWithBody: all but Content-Length.  *)
FilterHeaders(headers) == headers \ {"Content-Length"}

(* Header copy of forwardOllamaRequest: every header of the request.       *)
CopyHeaders(headers) == headers

(* Variant: the stream member of the body is handed on with the messages. *)
MessagesHonoringStream(body) ==
    <<[role |-> "user", content |-> body.text, stream |-> body.extra]>>

(* chatReq.Messages copied into messagesForProvider *)
MessagesForProvider(body) == <<[role |-> "user", content |-> body.text]>>

ForwardCall(p, urlPath, bytes, headers) ==
    [kind |-> "ForwardRaw", provider |-> p, name |-> "ollama",
     urlPath |-> urlPath, body |-> bytes, headers |-> headers]

ChatCall(p, name, modelID, messages) ==
    [kind |-> "Chat", provider |-> p, name |-> name,
     model |-> modelID, messages |-> messages]

(* Variant: the reply does not name the model. *)
UnsupportedModelMissingID(modelID) ==
    ErrorResponse(StatusBadRequest, <<"Unsupported model">>)

(* handleChat 183, handleGenerate 259, showModelWithRawBody 498 *)
UnsupportedModel(modelID) ==
    ErrorResponse(StatusBadRequest, <<"Unsupported model: ", modelID>>)

(* Variant: the adapter's error text is replaced by a fixed message. *)
ChatErrorGeneric(err) ==
    ErrorResponse(StatusInternalServerError, <<"Chat completion failed">>)

(* handleChat 221, handleGenerate 296: ErrorResponse{Error: err.Error()}   *)
ChatError(err) == ErrorResponse(StatusInternalServerError, <<err>>)

(* Variant: openai traffic is forwarded raw as well. *)
IsPassThroughKindAnyKnown(name) == name \in {"ollama", "openai"}

(* The test providerName == "ollama" of the three dispatching handlers.    *)
IsPassThroughKind(name) == name = "ollama"

(* Variant: the relay answers 200 whatever the upstream status. *)
RelayUpstreamAlwaysOK(result) ==
    DataResponse(StatusOK, [raw |-> result.body])

(* forwardOllamaRequest 340-341, forwardOllamaRequestWithBody 365-366:     *)
(* c.Data(statusCode, "application/json", responseBody)                    *)
RelayUpstream(result) ==
    DataResponse(result.status, [raw |-> result.body])

(* Variant: the call is issued a second time. *)
IssueCallTwice(c) == Append(Append(calls, c), c)

(* One upstream call: providerImpl.Chat (handleChat 218, handleGenerate    *)
(* 292) or ollamaProvider.ForwardRequest (router.go 334, 359), each of     *)
(* which does a single client.Do.                                          *)
IssueCall(c) == Append(calls, c)

(* Variant: the reply is written twice. *)
ReplyTwice(r) ==
    /\ replies' = Append(Append(replies, r), r)
    /\ pc' = "RepliedOrFailed"

(* c.JSON / c.Data followed by the handler's return: the whole body is     *)
(* written in one piece, and nothing is written after it.                  *)
Reply(r) ==
    /\ replies' = Append(replies, r)
    /\ pc' = "RepliedOrFailed"

---------------------------------------------------------------------------
(* A request arrives at one of the dispatching endpoints. *)
Receive(endpoint, body, headers) ==
    /\ phase = "serving"
    /\ pc = "idle"
    /\ pc' = "ReceivedRaw"
    /\ req' = [endpoint |-> endpoint, body |-> body, headers |-> headers]
    /\ UNCHANGED <<fault, listed, unitVars, phase, providers, models,
                   storeErr, storeReads, resolved,
                   providerName, prov, path, calls, upstream, replies>>

(* The handler returns: the request and everything local to it is gone.    *)
HandlerReturn ==
    /\ pc = "RepliedOrFailed"
    /\ pc' = "idle"
    /\ req' = NoRequest
    /\ storeErr' = NoStoreErr
    /\ storeReads' = {}
    /\ resolved' = FALSE
    /\ providerName' = ""
    /\ prov' = 0
    /\ path' = "none"
    /\ calls' = <<>>
    /\ upstream' = NoUpstream
    /\ replies' = <<>>
    /\ fault' = FALSE
    /\ UNCHANGED <<phase, providers, models, listed, unitVars>>

(* Variant: model extraction validates the whole chat request. *)
UnmarshalTempReqStrict(body) == body.json /\ body.shapeOK

(* handleChat 171-174: json.Unmarshal(body, &tempReq), tempReq declaring   *)
(* the model field only; it succeeds on every JSON body.                   *)
UnmarshalTempReq(body) == body.json

(* handleChat, lines 159-178: io.ReadAll, then json.Unmarshal into tempReq *)
handleChat_ReadBody ==
    /\ pc = "ReceivedRaw"
    /\ req.endpoint = "chat"
    /\ IF ~req.body.readable
       THEN Reply(ErrorResponse(StatusBadRequest,
                                <<"Failed to read request body">>))
       ELSE IF ~UnmarshalTempReq(req.body)
       THEN Reply(ErrorResponse(StatusBadRequest,
                     <<"Invalid request body: missing model field">>))
       ELSE /\ pc' = "ModelExtracted"
            /\ UNCHANGED replies
    /\ UNCHANGED <<fault, listed, unitVars, phase, providers, models,
                   req, storeErr, storeReads,
                   resolved, providerName, prov, path, calls, upstream>>

(* handleGenerate, lines 251-255: c.ShouldBindJSON(&genReq) *)
handleGenerate_ReadBody ==
    /\ pc = "ReceivedRaw"
    /\ req.endpoint = "generate"
    /\ IF ~req.body.readable \/ ~req.body.json \/ ~req.body.shapeOK
       THEN Reply(ErrorResponse(StatusBadRequest,
                                <<"Invalid request body: ", "bind error">>))
       ELSE /\ pc' = "ModelExtracted"
            /\ UNCHANGED replies
    /\ UNCHANGED <<fault, listed, unitVars, phase, providers, models,
                   req, storeErr, storeReads,
                   resolved, providerName, prov, path, calls, upstream>>

(* showModelWithRawBody, lines 480-493 *)
showModel_ReadBody ==
    /\ pc = "ReceivedRaw"
    /\ req.endpoint = "show"
    /\ IF ~req.body.readable
       THEN Reply(ErrorResponse(StatusBadRequest,
                                <<"Failed to read request body">>))
       ELSE IF ~req.body.json
       THEN Reply(ErrorResponse(StatusBadRequest,
                                <<"Invalid request body: ", "json error">>))
       ELSE /\ pc' = "ModelExtracted"
            /\ UNCHANGED replies
    /\ UNCHANGED <<fault, listed, unitVars, phase, providers, models,
                   req, storeErr, storeReads,
                   resolved, providerName, prov, path, calls, upstream>>

(* The Storage reads determineProviderFromModel makes for modelID.         *)
ResolveReads(modelID, err) ==
    IF modelID = "" THEN {}
    ELSE IF err.providers \/ GetActiveProviders = <<>>
         THEN {"GetActiveProviders"}
         ELSE {"GetActiveProviders", "GetModelsByProviderID"}

RECURSIVE Queried(_, _, _)
(* The ids of the providers whose models the scan asks for before it ends. *)
Queried(provs, modelID, failed) ==
    IF provs = <<>> THEN {}
    ELSE IF Head(provs).id \notin failed
            /\ HasModel(GetModelsByProviderID(Head(provs).id), modelID)
         THEN {Head(provs).id}
         ELSE {Head(provs).id} \cup Queried(Tail(provs), modelID, failed)

(* The storage failures of err that the handler actually runs into.        *)
ObservedErr(modelID, err) ==
    IF modelID = "" THEN NoStoreErr
    ELSE IF err.providers
         THEN [providers |-> TRUE, models |-> {}, byName |-> FALSE]
         ELSE [providers |-> FALSE,
               models |-> err.models
                            \cap Queried(GetActiveProviders, modelID,
                                         err.models),
               byName |-> err.byName
                            /\ determineProviderFromModel(modelID, err) # ""]

(* handleChat 180-192, handleGenerate 257-267, showModelWithRawBody        *)
(* 495-507: determineProviderFromModel, then GetProviderByName.  err is    *)
(* the set of storage failures that strike during this request.            *)
ResolveProvider(err) ==
    /\ pc = "ModelExtracted"
    /\ storeErr' = ObservedErr(req.body.model, err)
    /\ resolved' = TRUE
    /\ LET name == determineProviderFromModel(req.body.model, err)
           row == GetProviderByName(name)
       IN  /\ providerName' = name
           /\ IF name = ""
              THEN /\ Reply(UnsupportedModel(req.body.model))
                   /\ prov' = 0
                   /\ storeReads' = ResolveReads(req.body.model, err)
              ELSE /\ storeReads' = ResolveReads(req.body.model, err)
                                       \cup {"GetProviderByName"}
                   /\ IF err.byName \/ row = 0
                      THEN /\ Reply(ErrorResponse(StatusInternalServerError,
                                     <<"Provider not found for model: ",
                                       req.body.model>>))
                           /\ prov' = 0
                      ELSE /\ prov' = row
                           /\ pc' = "ProviderResolved"
                           /\ UNCHANGED replies
    /\ UNCHANGED <<fault, listed, unitVars, phase, providers, models,
                   req, path, calls, upstream>>

StoreErrs ==
    [providers : BOOLEAN, models : SUBSET (1..Len(providers)),
     byName : BOOLEAN]

(* handleChat, lines 194-218 *)
handleChat_Dispatch ==
    /\ pc = "ProviderResolved"
    /\ req.endpoint = "chat"
    /\ IF IsPassThroughKind(providerName)
       THEN /\ path' = "PassThrough"
            /\ calls' = IssueCall(
                  ForwardCall(prov, "/api/chat", RawBytes(req.body),
                              FilterHeaders(req.headers)))
            /\ pc' = "PassThrough"
            /\ UNCHANGED replies
       ELSE /\ path' = "Translate"
            /\ IF ~req.body.shapeOK
               THEN /\ Reply(ErrorResponse(StatusBadRequest,
                                           <<"Invalid request body">>))
                    /\ UNCHANGED calls
               ELSE IF ~CreateProvider(providers[prov].name)
               THEN /\ Reply(ErrorResponse(StatusBadRequest,
                               <<"Unsupported provider: ", providerName>>))
                    /\ UNCHANGED calls
               ELSE /\ calls' = IssueCall(
                          ChatCall(prov, providers[prov].name,
                                   req.body.model,
                                   MessagesForProvider(req.body)))
                    /\ pc' = "Translate"
                    /\ UNCHANGED replies
    /\ UNCHANGED <<fault, listed, unitVars, phase, providers, models,
                   req, storeErr, storeReads,
                   resolved, providerName, prov, upstream>>

(* handleGenerate, lines 269-294 *)
handleGenerate_Dispatch ==
    /\ pc = "ProviderResolved"
    /\ req.endpoint = "generate"
    /\ IF IsPassThroughKind(providerName)
       THEN /\ path' = "PassThrough"
            /\ calls' = IssueCall(
                  ForwardCall(prov, "/api/generate",
                              MarshalGenerateRequest(req.body),
                              CopyHeaders(req.headers)))
            /\ pc' = "PassThrough"
            /\ UNCHANGED replies
       ELSE /\ path' = "Translate"
            /\ IF ~CreateProvider(providers[prov].name)
               THEN /\ Reply(ErrorResponse(StatusBadRequest,
                               <<"Unsupported provider: ", providerName>>))
                    /\ UNCHANGED calls
               ELSE /\ calls' = IssueCall(
                          ChatCall(prov, providers[prov].name,
                                   req.body.model,
                                   MessagesForProvider(req.body)))
                    /\ pc' = "Translate"
                    /\ UNCHANGED replies
    /\ UNCHANGED <<fault, listed, unitVars, phase, providers, models,
                   req, storeErr, storeReads,
                   resolved, providerName, prov, upstream>>

(* The fixed-shape description showModelWithRawBody builds itself.         *)
ShowModelResponse(modelID, name) ==
    [modelfile |-> <<"# Model: ", modelID, "\n# Provider: ", name>>,
     capabilities |-> <<"completion">>]

(* showModelWithRawBody, lines 509-540 *)
showModel_Dispatch ==
    /\ pc = "ProviderResolved"
    /\ req.endpoint = "show"
    /\ IF IsPassThroughKind(providerName)
       THEN /\ path' = "PassThrough"
            /\ calls' = IssueCall(
                  ForwardCall(prov, "/api/show", RawBytes(req.body),
                              FilterHeaders(req.headers)))
            /\ pc' = "PassThrough"
            /\ UNCHANGED replies
       ELSE /\ path' = "Local"
            /\ Reply(DataResponse(StatusOK,
                        ShowModelResponse(req.body.model, providerName)))
            /\ UNCHANGED calls
    /\ UNCHANGED <<fault, listed, unitVars, phase, providers, models,
                   req, storeErr, storeReads,
                   resolved, providerName, prov, upstream>>

(* OllamaProvider.ForwardRequest returns, and forwardOllamaRequest /       *)
(* forwardOllamaRequestWithBody (lines 334-341, 359-366) relay the result. *)
forwardOllamaRequest_Return(result) ==
    /\ pc = "PassThrough"
    /\ upstream' = result
    /\ IF result.kind = "error"
       THEN Reply(ErrorResponse(StatusInternalServerError, <<result.err>>))
       ELSE Reply(RelayUpstream(result))
    /\ UNCHANGED <<fault, listed, unitVars, phase, providers, models,
                   req, storeErr, storeReads,
                   resolved, providerName, prov, path, calls>>

(* providerImpl.Chat returns; handleChat 218-234, handleGenerate 292-308.  *)
Chat_Return(result) ==
    /\ pc = "Translate"
    /\ upstream' = result
    /\ IF result.kind = "error"
       THEN Reply(ChatError(result.err))
       ELSE IF req.endpoint = "chat"
       THEN Reply(DataResponse(StatusOK,
                     TransformChatResponse(result.text, req.body.model)))
       ELSE Reply(DataResponse(StatusOK,
                     TransformGenerateResponse(result.text, req.body.model)))
    /\ UNCHANGED <<fault, listed, unitVars, phase, providers, models,
                   req, storeErr, storeReads,
                   resolved, providerName, prov, path, calls>>

(* Only handleChat defers a recover() (router.go 151-157). *)
HandlerRecovers(endpoint) == endpoint = "chat"

(* Variant: the engine is built with gin.New(), without Recovery. *)
EngineRecoveryNone == FALSE

(* main builds the engine with gin.Default(), which installs gin's         *)
(* Recovery middleware around every route.                                 *)
EngineRecovery == TRUE

(* handleChat 153-155: c.JSON(500, ErrorResponse{Error: errMsg}) *)
PanicRecovered(rec) ==
    ErrorResponse(StatusInternalServerError,
                  <<"panic recovered in handleChat: ", rec>>)

(* gin's Recovery: c.AbortWithStatus(500), a status line without a body.   *)
AbortWithStatus(status) ==
    [status |-> status, ctype |-> "", body |-> [empty |-> TRUE]]

(* The places of a handler where a panic can be raised: anywhere between   *)
(* the arrival of the request and the write of its reply.                  *)
Handling ==
    {"ReceivedRaw", "ModelExtracted", "ProviderResolved", "PassThrough",
     "Translate"}

(* A panic is raised while the request is handled.  It unwinds to the      *)
(* handler's deferred recover, else to the engine's Recovery, else to the  *)
(* recover of net/http's connection goroutine, which drops the connection  *)
(* without a reply.                                                        *)
Panic(rec) ==
    /\ pc \in Handling
    /\ fault' = TRUE
    /\ IF HandlerRecovers(req.endpoint)
       THEN Reply(PanicRecovered(rec))
       ELSE IF EngineRecovery
       THEN Reply(AbortWithStatus(StatusInternalServerError))
       ELSE /\ pc' = "RepliedOrFailed"
            /\ UNCHANGED replies
    /\ UNCHANGED <<listed, unitVars, phase, providers, models, req, storeErr,
                   storeReads, resolved, providerName, prov, path, calls,
                   upstream>>

Next ==
    \/ \E n \in ProviderNames, a \in BOOLEAN : AddProvider(n, a)
    \/ \E p \in 1..MaxProviders, m \in ModelIDs, a \in BOOLEAN :
          AddModel(p, m, a)
    \/ StartServing
    \/ \E e \in Endpoints, b \in Bodies, h \in HeaderSets : Receive(e, b, h)
    \/ handleChat_ReadBody
    \/ handleGenerate_ReadBody
    \/ showModel_ReadBody
    \/ \E err \in StoreErrs : ResolveProvider(err)
    \/ handleChat_Dispatch
    \/ handleGenerate_Dispatch
    \/ showModel_Dispatch
    \/ \E r \in ForwardResults : forwardOllamaRequest_Return(r)
    \/ \E r \in ChatResults : Chat_Return(r)
    \/ HandlerReturn
    \/ Panic("nil pointer dereference")

Spec == Init /\ [][Next]_vars

(* The steps a handler takes by itself once a request has arrived.  None   *)
(* of them waits forever: storage reads are local and every adapter's      *)
(* http.Client has a 30 s Timeout, so an upstream call returns.            *)
HandlerStep ==
    \/ handleChat_ReadBody
    \/ handleGenerate_ReadBody
    \/ showModel_ReadBody
    \/ \E err \in StoreErrs : ResolveProvider(err)
    \/ handleChat_Dispatch
    \/ handleGenerate_Dispatch
    \/ showModel_Dispatch
    \/ \E r \in ForwardResults : forwardOllamaRequest_Return(r)
    \/ \E r \in ChatResults : Chat_Return(r)

FairSpec == Spec /\ WF_vars(HandlerStep)

---------------------------------------------------------------------------
(* The listing endpoints GET /api/v1/models (listModels) and GET /api/tags *)
(* (listTags).  Each handler runs to its end in one step; what the         *)
(* providers' GetModels answer during that run is its input.               *)

(* What a provider's GetModels may return: the ids of the models the       *)
(* upstream offers at that moment, or an error.                            *)
GetModelsResults ==
    {[kind |-> "models", ids |-> <<"a-1">>],
     [kind |-> "models", ids |-> <<"c-9">>],
     [kind |-> "error"]}

RECURSIVE ActiveModelIDs(_)
(* for _, model := range localModels { if model.IsActive { ... } } *)
ActiveModelIDs(rows) ==
    IF rows = <<>> THEN <<>>
    ELSE IF Head(rows).active
         THEN <<Head(rows).model_id>> \o ActiveModelIDs(Tail(rows))
         ELSE ActiveModelIDs(Tail(rows))

RECURSIVE AppendUnprocessed(_, _, _)
(* Appends an entry for each id not yet in processedModels, which holds    *)
(* exactly the ids of the entries made so far.                             *)
AppendUnprocessed(entries, ids, owner) ==
    IF ids = <<>> THEN entries
    ELSE IF \E k \in 1..Len(entries) : entries[k].id = Head(ids)
         THEN AppendUnprocessed(entries, Tail(ids), owner)
         ELSE AppendUnprocessed(
                  Append(entries, [id |-> Head(ids), owned_by |-> owner]),
                  Tail(ids), owner)

RECURSIVE CollectEntries(_, _, _)
(* The loop over the active providers of listModels 89-128 and listTags    *)
(* 420-458: skip a provider without implementation, add what GetModels     *)
(* returns, then the provider's active rows of table models.               *)
CollectEntries(provs, fetched, entries) ==
    IF provs = <<>> THEN entries
    ELSE LET p == Head(provs)
             f == fetched[p.id]
             remote == IF f.kind = "models"
                       THEN AppendUnprocessed(entries, f.ids, p.name)
                       ELSE entries
             local == AppendUnprocessed(remote,
                          ActiveModelIDs(GetModelsByProviderID(p.id)),
                          p.name)
         IN  IF ~CreateProvider(p.name)
             THEN CollectEntries(Tail(provs), fetched, entries)
             ELSE CollectEntries(Tail(provs), fetched, local)

(* models.ListModelsResponse{Object: "list", Data: modelEntries} *)
ListModelsResponse(entries) ==
    [object |-> "list",
     data |-> [k \in 1..Len(entries) |->
                 [id |-> entries[k].id, object |-> "model",
                  created |-> "now", owned_by |-> entries[k].owned_by]]]

(* models.ListTagsResponse{Models: tagEntries} *)
ListTagsResponse(entries) ==
    [models |-> [k \in 1..Len(entries) |->
                   [name |-> entries[k].id, modified_at |-> "now",
                    size |-> 0, digest |-> ""]]]

FailedToRetrieveProviders ==
    ErrorResponse(StatusInternalServerError,
                  <<"Failed to retrieve providers">>)

(* listModels, router.go 79-134 *)
listModels(err, fetched) ==
    /\ phase = "serving"
    /\ pc = "idle"
    /\ Len(listed) < MaxListings
    /\ listed' = Append(listed,
          IF err THEN FailedToRetrieveProviders
          ELSE DataResponse(StatusOK,
                  ListModelsResponse(
                      CollectEntries(GetActiveProviders, fetched, <<>>))))
    /\ UNCHANGED <<phase, providers, models, requestVars, unitVars>>

(* listTags, router.go 410-464 *)
listTags(err, fetched) ==
    /\ phase = "serving"
    /\ pc = "idle"
    /\ Len(listed) < MaxListings
    /\ listed' = Append(listed,
          IF err THEN FailedToRetrieveProviders
          ELSE DataResponse(StatusOK,
                  ListTagsResponse(
                      CollectEntries(GetActiveProviders, fetched, <<>>))))
    /\ UNCHANGED <<phase, providers, models, requestVars, unitVars>>

(* The registry is filled, then the listing endpoints are called. *)
ListNext ==
    \/ \E n \in ProviderNames, a \in BOOLEAN : AddProvider(n, a)
    \/ \E p \in 1..MaxProviders, m \in ModelIDs, a \in BOOLEAN :
          AddModel(p, m, a)
    \/ StartServing
    \/ \E err \in BOOLEAN,
          fetched \in [1..Len(providers) -> GetModelsResults] :
          listModels(err, fetched)
    \/ \E err \in BOOLEAN,
          fetched \in [1..Len(providers) -> GetModelsResults] :
          listTags(err, fetched)

ListSpec == Init /\ [][ListNext]_vars

(* A listing reply has been written and the handler has returned: nothing  *)
(* of it is kept in the process.                                           *)
ListingDelivered ==
    /\ listed # <<>>
    /\ listed' = <<>>
    /\ UNCHANGED <<phase, providers, models, requestVars, unitVars>>

(* All five endpoints: chat, generate and show requests and listings, in   *)
(* any order.                                                              *)
ServeNext ==
    \/ /\ listed = <<>>
       /\ Next
    \/ \E err \in BOOLEAN,
          fetched \in [1..Len(providers) -> GetModelsResults] :
          listModels(err, fetched)
    \/ \E err \in BOOLEAN,
          fetched \in [1..Len(providers) -> GetModelsResults] :
          listTags(err, fetched)
    \/ ListingDelivered

ServeSpec == Init /\ [][ServeNext]_vars

---------------------------------------------------------------------------
(* Startup discovery (provider/service.go 75-100) *)

(* Variant: a fetched model is stored only if no active row has its id. *)
StoreFetchedOnce(rows, providerID, ids) ==
    LET RECURSIVE Store(_, _)
        Store(acc, rest) ==
            IF rest = <<>> THEN acc
            ELSE Store(IF \E k \in 1..Len(acc) :
                             acc[k].active /\ acc[k].model_id = Head(rest)
                       THEN acc
                       ELSE Append(acc, [provider_id |-> providerID,
                                         model_id |-> Head(rest),
                                         active |-> TRUE]),
                       Tail(rest))
    IN  Store(rows, ids)

(* for _, model := range modelsToAdd: model.ProviderID = prov.ID, then     *)
(* store.AddModel(&model); every adapter's GetModels marks its models      *)
(* active.                                                                 *)
StoreFetched(rows, providerID, ids) ==
    rows \o [k \in 1..Len(ids) |->
                [provider_id |-> providerID, model_id |-> ids[k],
                 active |-> TRUE]]

(* FetchModelsForProvider(store, prov) for the active provider of row p,   *)
(* the upstream's GetModels returning fetched.                             *)
FetchModelsForProvider(p, fetched) ==
    /\ phase = "startup"
    /\ p \in 1..Len(providers)
    /\ providers[p].active
    /\ IF CreateProvider(providers[p].name) /\ fetched.kind = "models"
       THEN /\ Len(models) + Len(fetched.ids) <= MaxModels
            /\ models' = StoreFetched(models, p, fetched.ids)
       ELSE UNCHANGED models
    /\ UNCHANGED <<phase, providers, requestVars, listed, unitVars>>

DiscoveryNext ==
    \/ \E n \in ProviderNames, a \in BOOLEAN : AddProvider(n, a)
    \/ \E p \in 1..MaxProviders, fetched \in GetModelsResults :
          FetchModelsForProvider(p, fetched)
    \/ StartServing

DiscoverySpec == Init /\ [][DiscoveryNext]_vars

---------------------------------------------------------------------------
(* The response transformer on its own (provider/service.go 33-57), with   *)
(* the JSON text it produces.  A Go string is a sequence of bytes; it is   *)
(* modelled as a sequence over Chars, in which BadByte stands for a byte   *)
(* that is not part of a valid UTF-8 encoding.                             *)

BadByte == "0xff"

ReplacementChar == "U+FFFD"

Chars == {"a", "<", "\"", "\\", BadByte}

RECURSIVE SeqsUpTo(_, _)
SeqsUpTo(S, n) ==
    IF n = 0 THEN {<<>>}
    ELSE LET shorter == SeqsUpTo(S, n - 1)
         IN  shorter \cup {Append(q, c) : q \in shorter, c \in S}

GoStrings == SeqsUpTo(Chars, MaxStringLen)

ValidUTF8(str) == \A k \in 1..Len(str) : str[k] # BadByte

(* Variant: the bytes of the string are written out unescaped. *)
EncodeCharRaw(c) == <<c>>

(* encoding/json's string encoder as json.Marshal uses it: quote and       *)
(* backslash are escaped, an HTML character becomes a \u escape, and an    *)
(* invalid byte is coerced to the replacement character.                   *)
EncodeChar(c) ==
    IF c = "\"" THEN <<"\\", "\"">>
    ELSE IF c = "\\" THEN <<"\\", "\\">>
    ELSE IF c = "<" THEN <<"\\", "u", "003c">>
    ELSE IF c = BadByte THEN <<"\\", "u", "fffd">>
    ELSE <<c>>

RECURSIVE EncodeChars(_)
EncodeChars(str) ==
    IF str = <<>> THEN <<>>
    ELSE EncodeChar(Head(str)) \o EncodeChars(Tail(str))

(* The JSON text of a string value. *)
MarshalString(str) == <<"\"">> \o EncodeChars(str) \o <<"\"">>

Prepend(c, parsed) ==
    [ok |-> parsed.ok, value |-> <<c>> \o parsed.value]

RECURSIVE UnquoteChars(_)
(* encoding/json's string decoder, after the opening quote: up to the      *)
(* closing quote, which must end the text.                                 *)
UnquoteChars(bytes) ==
    IF bytes = <<>> THEN [ok |-> FALSE, value |-> <<>>]
    ELSE IF Head(bytes) = "\""
         THEN [ok |-> Tail(bytes) = <<>>, value |-> <<>>]
    ELSE IF Head(bytes) = "\\"
         THEN IF Len(bytes) >= 2 /\ bytes[2] \in {"\"", "\\"}
              THEN Prepend(bytes[2],
                           UnquoteChars(SubSeq(bytes, 3, Len(bytes))))
              ELSE IF Len(bytes) >= 3 /\ bytes[2] = "u"
                         /\ bytes[3] \in {"003c", "fffd"}
              THEN Prepend(IF bytes[3] = "003c" THEN "<"
                                               ELSE ReplacementChar,
                           UnquoteChars(SubSeq(bytes, 4, Len(bytes))))
              ELSE [ok |-> FALSE, value |-> <<>>]
    ELSE IF Head(bytes) = BadByte
         THEN Prepend(ReplacementChar, UnquoteChars(Tail(bytes)))
    ELSE Prepend(Head(bytes), UnquoteChars(Tail(bytes)))

(* json.Unmarshal of the JSON text of a string value. *)
UnmarshalString(bytes) ==
    IF bytes # <<>> /\ Head(bytes) = "\""
    THEN UnquoteChars(Tail(bytes))
    ELSE [ok |-> FALSE, value |-> <<>>]

(* Readings of the wall clock: the zone is what varies in the layout.      *)
ClockReadings == {[zone |-> "Z"], [zone |-> "+08:00"]}

(* time.Now().Format(time.RFC3339) *)
FormatRFC3339(t) == <<"2006-01-02", "T", "15:04:05", t.zone>>

(* time.Parse(time.RFC3339, s) succeeds *)
ParsesRFC3339(str) ==
    /\ Len(str) = 4
    /\ str[1] = "2006-01-02" /\ str[2] = "T" /\ str[3] = "15:04:05"
    /\ str[4] \in {"Z", "+08:00"}

(* json.Marshal of the map TransformChatResponse builds: the JSON text of  *)
(* each member; marshalling strings and a bool cannot fail.                *)
MarshalChatResponse(content, modelID, now) ==
    [err |-> FALSE,
     json |-> [model |-> MarshalString(modelID),
               created_at |-> <<"\"">> \o FormatRFC3339(now) \o <<"\"">>,
               message |-> [role |-> MarshalString(<<"assistant">>),
                            content |-> MarshalString(content)],
               done |-> "true"]]

(* json.Unmarshal of that text into map[string]interface{}, as the         *)
(* transformer's test reads it back.                                       *)
UnmarshalChatResponse(json) ==
    [ok |-> /\ UnmarshalString(json.model).ok
            /\ UnmarshalString(json.created_at).ok
            /\ UnmarshalString(json.message.role).ok
            /\ UnmarshalString(json.message.content).ok
            /\ json.done \in {"true", "false"},
     model |-> UnmarshalString(json.model).value,
     created_at |-> UnmarshalString(json.created_at).value,
     message |-> [role |-> UnmarshalString(json.message.role).value,
                  content |-> UnmarshalString(json.message.content).value],
     done |-> json.done = "true"]

(* Variant: the reply is marked as not done. *)
MarshalGenerateResponseNotDone(content, modelID, now) ==
    [err |-> FALSE,
     json |-> [model |-> MarshalString(modelID),
               created_at |-> <<"\"">> \o FormatRFC3339(now) \o <<"\"">>,
               response |-> MarshalString(content),
               done |-> "false"]]

(* json.Marshal of the map TransformGenerateResponse builds. *)
MarshalGenerateResponse(content, modelID, now) ==
    [err |-> FALSE,
     json |-> [model |-> MarshalString(modelID),
               created_at |-> <<"\"">> \o FormatRFC3339(now) \o <<"\"">>,
               response |-> MarshalString(content),
               done |-> "true"]]

(* json.Unmarshal of a reply of the generate shape; members holds the      *)
(* names of the members of the JSON object.                                *)
UnmarshalGenerateResponse(json) ==
    [ok |-> /\ UnmarshalString(json.model).ok
            /\ UnmarshalString(json.created_at).ok
            /\ UnmarshalString(json.response).ok
            /\ json.done \in {"true", "false"},
     members |-> DOMAIN json,
     model |-> UnmarshalString(json.model).value,
     created_at |-> UnmarshalString(json.created_at).value,
     response |-> UnmarshalString(json.response).value,
     done |-> json.done = "true"]

(* Strings that came out of a JSON decoder: the members of a bound request *)
(* body and the text an adapter's Chat returns.                            *)
DecodedStrings == {str \in GoStrings : ValidUTF8(str)}

(* What providerImpl.Chat returns to handleGenerate. *)
UnitChatResults ==
    [kind : {"text"}, text : DecodedStrings]
       \cup {[kind |-> "error", err |-> "connection refused"]}

TransformInit ==
    /\ GatewayInit
    /\ unit \in
          [step : {"called"},
           fn : {"TransformChatResponse", "TransformGenerateResponse"},
           content : GoStrings, modelID : GoStrings, now : ClockReadings]
          \cup
          [step : {"called"}, fn : {"handleGenerate"},
           prompt : DecodedStrings, modelID : DecodedStrings,
           now : ClockReadings]

(* TransformChatResponse(content, modelID) returns, and the caller decodes *)
(* what it returned.                                                       *)
TransformChat ==
    /\ unit.step = "called"
    /\ unit.fn = "TransformChatResponse"
    /\ LET out == MarshalChatResponse(unit.content,
                                      unit.modelID, unit.now)
       IN  unit' =
              [step |-> "returned", fn |-> unit.fn,
               content |-> unit.content,
               modelID |-> unit.modelID,
               err |-> out.err,
               decoded |-> UnmarshalChatResponse(out.json)]
    /\ UNCHANGED <<phase, providers, models, requestVars, listed>>

(* TransformGenerateResponse(content, modelID) returns, and the caller     *)
(* decodes what it returned.                                               *)
TransformGenerate ==
    /\ unit.step = "called"
    /\ unit.fn = "TransformGenerateResponse"
    /\ LET out == MarshalGenerateResponse(unit.content,
                                          unit.modelID,
                                          unit.now)
       IN  unit' =
              [step |-> "returned", fn |-> unit.fn,
               content |-> unit.content,
               modelID |-> unit.modelID,
               err |-> out.err,
               decoded |-> UnmarshalGenerateResponse(out.json)]
    /\ UNCHANGED <<phase, providers, models, requestVars, listed>>

(* handleGenerate from the adapter call to the reply (router.go 292-308),  *)
(* on the strings themselves: genReq.Prompt and genReq.Model are what the  *)
(* binding decoded, result is what providerImpl.Chat returns.              *)
handleGenerate_Translate(result) ==
    /\ unit.step = "called"
    /\ unit.fn = "handleGenerate"
    /\ LET call == ChatCall(1, "openai", unit.modelID,
                            <<[role |-> "user",
                               content |-> unit.prompt]>>)
           out == MarshalGenerateResponse(result.text, unit.modelID,
                                          unit.now)
           reply == IF result.kind = "error"
                    THEN ChatError(result.err)
                    ELSE IF out.err
                    THEN ErrorResponse(StatusInternalServerError,
                                       <<"Failed to transform response">>)
                    ELSE DataResponse(StatusOK, out.json)
       IN  unit' =
              [step |-> "returned", fn |-> unit.fn,
               prompt |-> unit.prompt,
               modelID |-> unit.modelID,
               calls |-> <<call>>, result |-> result, reply |-> reply]
    /\ UNCHANGED <<phase, providers, models, requestVars, listed>>

TransformNext ==
    \/ TransformChat
    \/ TransformGenerate
    \/ \E result \in UnitChatResults : handleGenerate_Translate(result)

TransformSpec == TransformInit /\ [][TransformNext]_vars

---------------------------------------------------------------------------
(* Envelope ids (router.go 395-398, part_009 221-273): handlers running in *)
(* their own goroutines read the wall clock; a second of the clock has     *)
(* NanosPerSecond readings.                                                *)

Handlers == 1..MaxHandlers

ClockStart == [sec |-> 0, nsec |-> 0]

RECURSIVE Decimal(_)
(* fmt.Sprintf("%d", n) for n >= 0: the decimal digits of n. *)
Decimal(n) ==
    IF n < 10 THEN <<n>> ELSE Append(Decimal(n \div 10), n % 10)

(* Variant: the id is drawn from a counter shared by the handlers. *)
generateIDFromCounter(now, issued) == Decimal(issued)

(* generateID: time.Now().Nanosecond(), the offset within the second,      *)
(* printed in decimal.                                                     *)
generateID(now, issued) == Decimal(now.nsec)

(* The id member of generateFakeOllamaResponse's envelope. *)
EnvelopeID(now, issued) == <<"chatcmpl-">> \o generateID(now, issued)

IdInit ==
    /\ GatewayInit
    /\ unit = [now |-> ClockStart,
               lastRead |-> [h \in Handlers |-> {}],
               envelopes |-> <<>>]

(* The wall clock advances by one reading. *)
Tick ==
    /\ \/ unit.now.nsec + 1 < NanosPerSecond
       \/ unit.now.sec < MaxSeconds
    /\ unit' = [unit EXCEPT !.now =
                   IF unit.now.nsec + 1 < NanosPerSecond
                   THEN [sec |-> unit.now.sec, nsec |-> unit.now.nsec + 1]
                   ELSE [sec |-> unit.now.sec + 1, nsec |-> 0]]
    /\ UNCHANGED <<phase, providers, models, requestVars, listed>>

(* Handler h builds an envelope.  The clock is taken to have advanced      *)
(* between two readings of one goroutine; handlers running concurrently    *)
(* may read the same value.                                                *)
generateFakeOllamaResponse(h) ==
    /\ Len(unit.envelopes) < MaxEnvelopes
    /\ unit.now \notin unit.lastRead[h]
    /\ unit' = [unit EXCEPT
                  !.lastRead[h] = {unit.now},
                  !.envelopes = Append(@,
                      [by |-> h, at |-> unit.now,
                       id |-> EnvelopeID(unit.now, Len(unit.envelopes))])]
    /\ UNCHANGED <<phase, providers, models, requestVars, listed>>

IdNext ==
    \/ Tick
    \/ \E h \in Handlers : generateFakeOllamaResponse(h)

IdSpec == IdInit /\ [][IdNext]_vars

---------------------------------------------------------------------------
(* The adapters' Chat on its own (transformer_test.go 172-217, part_007    *)
(* 73-144, part_004 70-110): the payload it sends for a message list and   *)
(* what it returns for the upstream's answer.                              *)

Adapters == {"openai", "anthropic", "ollama"}

Roles == {"system", "user", "assistant", "tool"}

MessageLists ==
    SeqsUpTo([role : Roles, content : {"x", "y"}], MaxMessages)

(* The replies a parseable answer holds: choices[].message.content for     *)
(* OpenAI, content[].text for Anthropic, and for Ollama the one message    *)
(* object, which may be missing.                                           *)
ReplySets(adapter) ==
    SeqsUpTo({"", "Hi"}, IF adapter = "ollama" THEN 1 ELSE MaxReplies)

StatusNoContent == 204

(* What client.Do and the decoding of the body can come to. *)
ChatAnswers(adapter) ==
    {[kind |-> "error", err |-> "connection refused"]}
       \cup [kind : {"response"},
             status : {StatusOK, StatusNoContent, StatusInternalServerError},
             parseable : {FALSE}, replies : {<<>>}]
       \cup [kind : {"response"},
             status : {StatusOK, StatusNoContent, StatusInternalServerError},
             parseable : {TRUE}, replies : ReplySets(adapter)]

(* return "", err *)
ChatFailed(err) == [text |-> "", err |-> err]

(* return text, nil *)
ChatText(text) == [text |-> text, err |-> "nil"]

(* The part of Chat that the three adapters share: the transport error,    *)
(* the status test and the decoding of the body.                           *)
ChatUpTo(answer, onDecoded) ==
    IF answer.kind = "error" THEN ChatFailed(answer.err)
    ELSE IF answer.status # StatusOK
    THEN ChatFailed("unexpected status code")
    ELSE IF ~answer.parseable THEN ChatFailed("invalid character")
    ELSE onDecoded

(* if len(chatResp.Choices) > 0 { return chatResp.Choices[0]... } *)
FirstReplyOrError(found) ==
    IF Len(found) > 0 THEN ChatText(found[1])
    ELSE ChatFailed("no response content found")

(* return chatResp.Message.Content, nil: a missing message decodes to the  *)
(* zero value.                                                             *)
MessageContent(found) ==
    ChatText(IF Len(found) > 0 THEN found[1] ELSE "")

OpenAIProvider_Chat(answer) ==
    ChatUpTo(answer, FirstReplyOrError(answer.replies))

AnthropicProvider_Chat(answer) ==
    ChatUpTo(answer, FirstReplyOrError(answer.replies))

OllamaProvider_Chat(answer) ==
    ChatUpTo(answer, MessageContent(answer.replies))

RECURSIVE AnthropicMessages(_)
(* The loop of AnthropicProvider.Chat over the messages that are not       *)
(* system messages: the role is kept if it is user or assistant and set    *)
(* to user otherwise.                                                      *)
AnthropicMessages(messages) ==
    IF messages = <<>> THEN <<>>
    ELSE IF Head(messages).role = "system"
    THEN AnthropicMessages(Tail(messages))
    ELSE <<[role |-> IF Head(messages).role \in {"user", "assistant"}
                    THEN Head(messages).role ELSE "user",
            content |-> Head(messages).content]>>
         \o AnthropicMessages(Tail(messages))

RECURSIVE SystemContents(_)
SystemContents(messages) ==
    IF messages = <<>> THEN <<>>
    ELSE (IF Head(messages).role = "system"
          THEN <<Head(messages).content>> ELSE <<>>)
         \o SystemContents(Tail(messages))

(* Variant: the system messages are joined. *)
SystemMessageJoined(messages) == SystemContents(messages)

(* systemMessage = content, for every system message in turn: the string   *)
(* the payload ends with, as the list of the contents it is made of.       *)
SystemMessage(messages) ==
    LET contents == SystemContents(messages)
    IN  IF contents = <<>> THEN <<>>
        ELSE <<contents[Len(contents)]>>

(* The payload each adapter marshals. *)
ChatPayload(adapter, modelID, messages) ==
    IF adapter = "anthropic"
    THEN [model |-> modelID, max_tokens |-> 1024,
          messages |-> AnthropicMessages(messages),
          system |-> SystemMessage(messages)]
    ELSE IF adapter = "ollama"
    THEN [model |-> modelID, messages |-> messages, stream |-> FALSE]
    ELSE [model |-> modelID, messages |-> messages]

AdapterInit ==
    /\ GatewayInit
    /\ \E adapter \in Adapters :
          unit \in [step : {"called"}, adapter : {adapter},
                    messages : MessageLists, answer : ChatAnswers(adapter)]

(* providerImpl.Chat("a-1", messages) runs to its return. *)
Chat ==
    /\ unit.step = "called"
    /\ unit' = [step |-> "returned", adapter |-> unit.adapter,
                messages |-> unit.messages, answer |-> unit.answer,
                payload |-> ChatPayload(unit.adapter, "a-1", unit.messages),
                result |-> IF unit.adapter = "openai"
                           THEN OpenAIProvider_Chat(unit.answer)
                           ELSE IF unit.adapter = "anthropic"
                           THEN AnthropicProvider_Chat(unit.answer)
                           ELSE OllamaProvider_Chat(unit.answer)]
    /\ UNCHANGED <<phase, providers, models, requestVars, listed>>

AdapterSpec == AdapterInit /\ [][Chat]_vars

---------------------------------------------------------------------------
(* Properties *)

Replied == pc = "RepliedOrFailed"

(* The request went through the dispatch decision of its handler. *)
Dispatched == path # "none"

ActiveRecordsOf(modelID) ==
    {i \in 1..Len(models) : models[i].model_id = modelID /\ models[i].active}

RecordsOf(modelID) ==
    {i \in 1..Len(models) : models[i].model_id = modelID}

OwnerOf(i) == providers[models[i].provider_id]

(* C1: provider resolution returns the owning provider of a model-id that  *)
(* is present in exactly one active ModelRecord (the owner being one of    *)
(* the active providers the scan covers, the storage reads succeeding),    *)
(* and returns NotFound ("") for a model-id absent from the registry and   *)
(* for the empty model-id.                                                 *)
C1_ResolveReturnsOwner ==
    (resolved /\ storeErr = NoStoreErr) =>
        LET m == req.body.model
        IN  /\ (m = "" \/ RecordsOf(m) = {}) => providerName = ""
            /\ \A i \in ActiveRecordsOf(m) :
                  (m # "" /\ ActiveRecordsOf(m) = {i} /\ OwnerOf(i).active)
                      => providerName = OwnerOf(i).name

(* The registry of the two-vendor scenario: providers a and b are active,  *)
(* each is the only row of its name, a owns every record of a-1 and b      *)
(* every record of b-1.  (Rows that share a name are the subject of the    *)
(* dispatch-record property, not of this scenario.)                        *)
TwoVendors(a, b) ==
    /\ a # b
    /\ providers[a].active /\ providers[b].active
    /\ \A i \in 1..Len(providers) :
          /\ providers[i].name = providers[a].name => i = a
          /\ providers[i].name = providers[b].name => i = b
    /\ RecordsOf("a-1") # {} /\ RecordsOf("b-1") # {}
    /\ \A i \in RecordsOf("a-1") : models[i].provider_id = a
    /\ \A i \in RecordsOf("b-1") : models[i].provider_id = b

(* C2: every upstream call of a request is made on the adapter of the      *)
(* provider that resolution returned for the request's model; with two     *)
(* active providers a (owning a-1) and b (owning b-1), a chat request for  *)
(* a-1 never calls b's adapter.                                            *)
C2_DispatchToResolvedProvider ==
    /\ \A k \in 1..Len(calls) :
          /\ providerName # ""
          /\ calls[k].name = providerName
          /\ calls[k].provider = GetProviderByName(providerName)
    /\ \A a, b \in 1..Len(providers) :
          (TwoVendors(a, b) /\ req.endpoint = "chat"
                /\ req.body.model = "a-1")
             => \A k \in 1..Len(calls) :
                   calls[k].provider = a /\ calls[k].provider # b

C2_Witness ==
    /\ Replied
    /\ req.endpoint = "chat" /\ req.body.model = "a-1"
    /\ \E a, b \in 1..Len(providers) :
          TwoVendors(a, b) /\ Len(calls) = 1 /\ calls[1].provider = a

(* C3 as stated: on every dispatching endpoint (chat, generate, show) a    *)
(* request takes PassThrough when the resolved provider is ollama and      *)
(* Translate for every other resolved provider kind.                       *)
C3_TranslateOnEveryEndpoint ==
    Dispatched =>
        IF providerName = "ollama" THEN path = "PassThrough"
                                   ELSE path = "Translate"

(* C3, amended: PassThrough is taken only when the resolved provider is    *)
(* ollama, on all three endpoints; Translate is taken for every other      *)
(* resolved kind on chat and generate, while show answers such a provider  *)
(* with a locally built description and no adapter call; the calls of one  *)
(* request are all of the kind of its path.                                *)
C3_PassThroughOnlyForOllama ==
    /\ Dispatched =>
          /\ (path = "PassThrough") <=> (providerName = "ollama")
          /\ providerName # "ollama" =>
                IF req.endpoint = "show" THEN path = "Local"
                                         ELSE path = "Translate"
    /\ \A k \in 1..Len(calls) :
          /\ calls[k].kind = "ForwardRaw" <=> path = "PassThrough"
          /\ calls[k].kind = "Chat" <=> path = "Translate"
    /\ path = "Local" => calls = <<>>

C3_Witness ==
    /\ Replied
    /\ req.endpoint = "show"
    /\ path = "Local"
    /\ providerName = "openai"
    /\ Len(replies) = 1 /\ replies[1].status = StatusOK

(* C4: on the PassThrough path, whenever the upstream produced a response, *)
(* the caller gets the upstream's status code and the upstream's body.     *)
C4_PassThroughRelaysVerbatim ==
    (Replied /\ path = "PassThrough" /\ upstream.kind = "response") =>
        /\ Len(replies) = 1
        /\ replies[1].status = upstream.status
        /\ replies[1].body = [raw |-> upstream.body]

C4_Witness ==
    /\ Replied /\ path = "PassThrough"
    /\ upstream.kind = "response" /\ upstream.status = 404
    /\ replies = <<DataResponse(404, [raw |-> "model not found"])>>

(* C5: on every PassThrough request (chat, generate, show) the body sent   *)
(* upstream is the caller's body, byte for byte, and the forwarded headers *)
(* never contain Content-Length.                                           *)
C5_ForwardsOriginalBytes ==
    \A k \in 1..Len(calls) :
        calls[k].kind = "ForwardRaw" =>
            /\ calls[k].body = RawBytes(req.body)
            /\ "Content-Length" \notin calls[k].headers

(* C6: on the Translate path of the chat endpoint, a successful Chat with  *)
(* text t for model m is answered 200 with the chat.completion envelope:   *)
(* model m, one choice of index 0 with an assistant message of content t   *)
(* and finish_reason stop, and a usage of three zeros.                     *)
C6_ChatCompletionEnvelope ==
    (Replied /\ req.endpoint = "chat" /\ path = "Translate"
        /\ upstream.kind = "text") =>
        /\ Len(replies) = 1
        /\ replies[1].status = StatusOK
        /\ LET b == replies[1].body
           IN  /\ {"model", "object", "choices", "usage"} \subseteq DOMAIN b
               /\ b.model = req.body.model
               /\ b.object = "chat.completion"
               /\ b.choices =
                     <<[index |-> 0,
                        message |-> [role |-> "assistant",
                                     content |-> upstream.text],
                        finish_reason |-> "stop"]>>
               /\ b.usage = [prompt_tokens |-> 0, completion_tokens |-> 0,
                             total_tokens |-> 0]

C8_ChatErrorIs500 ==
    (Replied /\ path = "Translate" /\ upstream.kind = "error") =>
        /\ Len(replies) = 1
        /\ replies[1].status = 500
        /\ DOMAIN replies[1].body = {"error"}
        /\ \E k \in 1..Len(replies[1].body.error) :
              replies[1].body.error[k] = upstream.err

C8_Witness ==
    /\ Replied /\ path = "Translate" /\ req.endpoint = "chat"
    /\ upstream = [kind |-> "error", err |-> "quota exceeded"]
    /\ Len(replies) = 1 /\ replies[1].status = 500

(* C9: a storage failure during provider resolution (GetActiveProviders    *)
(* or GetModelsByProviderID failing) is answered with a 5xx, never with    *)
(* the 400 Unsupported-model reply.                                        *)
C9_StorageFailureIs5xx ==
    (Replied /\ resolved
        /\ (storeErr.providers \/ storeErr.models # {})) =>
        /\ Len(replies) = 1
        /\ replies[1].status >= 500

(* C10: a chat request whose body cannot be read ends with status 500 and  *)
(* error "Failed to read request body", without a registry lookup or an    *)
(* adapter call.                                                           *)
C10_BodyReadErrorIs500 ==
    (Replied /\ req.endpoint = "chat" /\ ~req.body.readable) =>
        /\ replies = <<[status |-> 500, ctype |-> "application/json",
                        body |-> [error |-> <<"Failed to read request body">>]]>>
        /\ storeReads = {}
        /\ calls = <<>>

(* C11: a panic raised at any point of the handling of a request, on the   *)
(* chat, generate and show handlers alike, gives that request exactly one  *)
(* reply of status 500 and leaves the process serving; and whenever the    *)
(* server waits for its next request nothing of an earlier request, its    *)
(* fault included, is left, so the next request is handled as the first.   *)
C11_FaultIs500AndServing ==
    /\ fault =>
          /\ Replied
          /\ phase = "serving"
          /\ Len(replies) = 1
          /\ replies[1].status = StatusInternalServerError
    /\ pc = "idle" =>
          /\ ~fault
          /\ <<req, storeErr, storeReads, resolved, providerName, prov, path,
               calls, upstream, replies>>
                = <<NoRequest, NoStoreErr, {}, FALSE, "", 0, "none", <<>>,
                    NoUpstream, <<>>>>

C11_Witness ==
    /\ fault /\ Replied
    /\ req.endpoint = "generate"
    /\ path = "Translate" /\ Len(calls) = 1
    /\ replies = <<AbortWithStatus(500)>>

(* C12: a chat request whose body is not JSON, or whose model field is     *)
(* missing or empty, ends with one 400 reply carrying an error body and    *)
(* makes no adapter call; a JSON body with a model but malformed messages  *)
(* is not turned down by model extraction: it gets as far as provider      *)
(* resolution.                                                             *)
C12_ModelExtraction ==
    /\ (Replied /\ ~fault /\ req.endpoint = "chat" /\ req.body.readable
           /\ (~req.body.json \/ req.body.model = "")) =>
          /\ Len(replies) = 1
          /\ replies[1].status = StatusBadRequest
          /\ DOMAIN replies[1].body = {"error"}
          /\ calls = <<>>
    /\ (Replied /\ ~fault /\ req.endpoint = "chat" /\ req.body.json
           /\ req.body.model # "" /\ ~req.body.shapeOK) => resolved

C12_Witness ==
    /\ pc = "ProviderResolved"
    /\ req.endpoint = "chat"
    /\ req.body.model = "a-1" /\ ~req.body.shapeOK
    /\ providerName = "openai"

RECURSIVE ScanMatch(_, _, _)
(* The id of the provider row at which the scan of resolution stops, 0     *)
(* when it runs to the end.                                                *)
ScanMatch(provs, modelID, failed) ==
    IF provs = <<>> THEN 0
    ELSE IF Head(provs).id \notin failed
            /\ HasModel(GetModelsByProviderID(Head(provs).id), modelID)
         THEN Head(provs).id
         ELSE ScanMatch(Tail(provs), modelID, failed)

(* C13: the provider row a request is dispatched with (the row returned    *)
(* by GetProviderByName, from which the adapter is built) is active and    *)
(* is the row whose model matched during the scan.                         *)
C13_DispatchRecordActive ==
    prov # 0 =>
        /\ providers[prov].active
        /\ prov = ScanMatch(GetActiveProviders, req.body.model,
                            storeErr.models)

(* C14: a model-id all of whose ModelRecords are inactive resolves to      *)
(* NotFound (""), whether or not the owning provider is active.            *)
C14_InactiveModelsNotMatched ==
    (resolved /\ storeErr = NoStoreErr /\ req.body.model # ""
        /\ RecordsOf(req.body.model) # {}
        /\ ActiveRecordsOf(req.body.model) = {}) => providerName = ""

(* The active providers that own a record of modelID. *)
ActiveOwnersOf(modelID) ==
    {p \in 1..Len(providers) :
        /\ providers[p].active
        /\ \E i \in RecordsOf(modelID) : models[i].provider_id = p}

ListedIDs(r) ==
    IF "data" \in DOMAIN r.body
    THEN {r.body.data[k].id : k \in 1..Len(r.body.data)}
    ELSE {r.body.models[k].name : k \in 1..Len(r.body.models)}

(* C16: two successful invocations of the same listing endpoint, with no   *)
(* registry mutation between them, return the same set of model entries,   *)
(* whatever the upstream providers answer in between.                      *)
C16_ListingIdempotent ==
    \A i, j \in 1..Len(listed) :
        (listed[i].status = StatusOK /\ listed[j].status = StatusOK
            /\ DOMAIN listed[i].body = DOMAIN listed[j].body)
           => ListedIDs(listed[i]) = ListedIDs(listed[j])

(* C17: while a chat or generate request is handled at most one upstream   *)
(* call (one Chat or one ForwardRaw) is issued, also when that call fails; *)
(* the failure of the call is reported to the caller at once, as the one   *)
(* reply of the request.                                                   *)
C17_NoRetries ==
    req.endpoint \in {"chat", "generate"} =>
        /\ Len(calls) <= 1
        /\ upstream.kind = "error" =>
              /\ Replied
              /\ Len(calls) = 1
              /\ Len(replies) = 1
              /\ replies[1] = ErrorResponse(StatusInternalServerError,
                                            <<upstream.err>>)

C17_Witness ==
    /\ Replied /\ req.endpoint = "generate" /\ path = "PassThrough"
    /\ upstream = [kind |-> "error", err |-> "connection refused"]
    /\ Len(calls) = 1 /\ calls[1].kind = "ForwardRaw"
    /\ Len(replies) = 1

(* An error reply: a status of 400 or more with an {error} body. *)
IsErrorReply(r) == r.status >= StatusBadRequest /\ DOMAIN r.body = {"error"}

(* A complete success reply of the request being handled: the upstream's   *)
(* body relayed whole, the whole output of the response transformer, or    *)
(* the whole model description of show.                                    *)
IsCompleteSuccess(r) ==
    \/ /\ path = "PassThrough" /\ upstream.kind = "response"
       /\ r = DataResponse(upstream.status, [raw |-> upstream.body])
    \/ /\ path = "Translate" /\ upstream.kind = "text"
       /\ r = DataResponse(StatusOK,
                IF req.endpoint = "chat"
                THEN TransformChatResponse(upstream.text, req.body.model)
                ELSE TransformGenerateResponse(upstream.text,
                                               req.body.model))
    \/ /\ path = "Local"
       /\ r = DataResponse(StatusOK,
                           ShowModelResponse(req.body.model, providerName))

C18_OneReplyState ==
    /\ Len(replies) <= 1
    /\ Replied => Len(replies) = 1
    /\ pc \in Handling => replies = <<>>
    /\ (Replied /\ ~fault) =>
          /\ IsErrorReply(replies[1]) # IsCompleteSuccess(replies[1])
          /\ (path = "Translate" /\ upstream.kind # "text")
                => IsErrorReply(replies[1])

(* C18: every request that arrives reaches RepliedOrFailed, there with     *)
(* exactly one reply, which is either a complete success body or an error  *)
(* body, never both; nothing is written while the request is still being   *)
(* handled, so on the Translate path nothing precedes the successful       *)
(* return of the adapter's Chat.  (Of a request that panicked the reply is *)
(* the one 500 of C11; its shape is not constrained here.)                 *)
C18_ExactlyOneCompleteReply ==
    /\ []C18_OneReplyState
    /\ (pc = "ReceivedRaw") ~> Replied

C18_Witness ==
    /\ Replied /\ ~fault
    /\ req.endpoint = "generate" /\ path = "Translate"
    /\ upstream = [kind |-> "text", text |-> "Hello"]
    /\ replies = <<DataResponse(StatusOK,
                      TransformGenerateResponse("Hello", "a-1"))>>

(* The same body without its stream member. *)
WithoutStream(body) == [body EXCEPT !.extra = FALSE]

(* C19: on the Translate path of chat the adapter call and the reply are   *)
(* those of the same request without its stream member: one Chat call      *)
(* with the model and the messages, and on success one complete reply.     *)
C19_StreamIgnored ==
    (req.endpoint = "chat" /\ path = "Translate") =>
        /\ \A k \in 1..Len(calls) :
              calls[k] = ChatCall(prov, providers[prov].name,
                                  WithoutStream(req.body).model,
                                  MessagesForProvider(WithoutStream(req.body)))
        /\ (Replied /\ ~fault /\ upstream.kind = "text") =>
              replies = <<DataResponse(StatusOK,
                            TransformChatResponse(upstream.text,
                                WithoutStream(req.body).model))>>

C19_Witness ==
    /\ Replied /\ ~fault
    /\ req.endpoint = "chat" /\ path = "Translate"
    /\ req.body.extra
    /\ Len(calls) = 1 /\ upstream.kind = "text"
    /\ Len(replies) = 1 /\ replies[1].status = StatusOK

(* C20: on the PassThrough path the content-type of the reply is the       *)
(* content-type of the upstream's response, whichever it is.               *)
C20_RelaysContentType ==
    (Replied /\ path = "PassThrough" /\ upstream.kind = "response") =>
        /\ Len(replies) = 1
        /\ replies[1].ctype = upstream.ctype

(* A Go string as encoding/json coerces it to valid UTF-8. *)
CoerceUTF8(str) ==
    [k \in 1..Len(str) |-> IF str[k] = BadByte THEN ReplacementChar
                                               ELSE str[k]]

(* C21 as stated: TransformChatResponse never fails and, for every content *)
(* and modelID, decoding its output gives back model = modelID, done =     *)
(* true, message.role = assistant, message.content = content and a         *)
(* created_at that parses as RFC3339.                                      *)
C21_RoundTripsEveryString ==
    (unit.step = "returned"
       /\ unit.fn = "TransformChatResponse") =>
        /\ ~unit.err
        /\ unit.decoded.ok
        /\ unit.decoded.model = unit.modelID
        /\ unit.decoded.done = TRUE
        /\ unit.decoded.message.role = <<"assistant">>
        /\ unit.decoded.message.content = unit.content
        /\ ParsesRFC3339(unit.decoded.created_at)

(* C21, amended: TransformChatResponse never fails, its output decodes     *)
(* with done = true, role = assistant and an RFC3339 created_at, and with  *)
(* model and message.content equal to modelID and content coerced to       *)
(* valid UTF-8: equal to the inputs themselves whenever these are valid    *)
(* UTF-8.                                                                  *)
C21_RoundTripsValidUTF8 ==
    (unit.step = "returned"
       /\ unit.fn = "TransformChatResponse") =>
        /\ ~unit.err
        /\ unit.decoded.ok
        /\ unit.decoded.done = TRUE
        /\ unit.decoded.message.role = <<"assistant">>
        /\ ParsesRFC3339(unit.decoded.created_at)
        /\ unit.decoded.model = CoerceUTF8(unit.modelID)
        /\ unit.decoded.message.content
              = CoerceUTF8(unit.content)
        /\ ValidUTF8(unit.modelID)
              => unit.decoded.model = unit.modelID
        /\ ValidUTF8(unit.content)
              => unit.decoded.message.content = unit.content

C21_Witness ==
    /\ unit.step = "returned"
    /\ unit.fn = "TransformChatResponse"
    /\ unit.content = <<"\"", "<">>
    /\ unit.modelID = <<"a", "\\">>
    /\ unit.decoded.message.content = <<"\"", "<">>
    /\ unit.decoded.model = <<"a", "\\">>

GenerateMembers == {"model", "created_at", "response", "done"}

(* The reply handleGenerate wrote decodes as the unified generate reply    *)
(* for text and modelID.                                                   *)
IsGenerateReply(r, text, modelID) ==
    /\ r.status = StatusOK /\ r.ctype = "application/json"
    /\ LET decoded == UnmarshalGenerateResponse(r.body)
       IN  /\ decoded.ok
           /\ decoded.members = GenerateMembers
           /\ decoded.model = modelID
           /\ decoded.response = text
           /\ decoded.done = TRUE
           /\ ParsesRFC3339(decoded.created_at)

(* The Translate path of the generate endpoint: one Chat call with the     *)
(* single message {role: user, content: prompt}, and on its success the    *)
(* unified generate reply for the returned text with status 200.           *)
GenerateTranslates ==
    (unit.step = "returned" /\ unit.fn = "handleGenerate") =>
        /\ unit.calls =
              <<ChatCall(1, "openai", unit.modelID,
                         <<[role |-> "user",
                            content |-> unit.prompt]>>)>>
        /\ unit.result.kind = "text" =>
              IsGenerateReply(unit.reply, unit.result.text,
                              unit.modelID)

(* C22 as stated: TransformGenerateResponse never fails and, whatever      *)
(* content and modelID are, decoding its output gives model = modelID,     *)
(* response = content, done = true and a created_at that parses as         *)
(* RFC3339; the generate endpoint's Translate path replies with exactly    *)
(* this body and status 200 after one Chat call with the single message    *)
(* {role: user, content: prompt}.                                          *)
C22_GenerateReplyEveryString ==
    /\ GenerateTranslates
    /\ (unit.step = "returned"
          /\ unit.fn = "TransformGenerateResponse") =>
          /\ ~unit.err
          /\ unit.decoded.ok
          /\ unit.decoded.model = unit.modelID
          /\ unit.decoded.response = unit.content
          /\ unit.decoded.done = TRUE
          /\ ParsesRFC3339(unit.decoded.created_at)

(* C22, amended: as above, with model and response equal to modelID and    *)
(* content coerced to valid UTF-8, hence to modelID and content themselves *)
(* whenever these are valid UTF-8, as the strings are that handleGenerate  *)
(* passes.                                                                 *)
C22_GenerateReplyValidUTF8 ==
    /\ GenerateTranslates
    /\ (unit.step = "returned"
          /\ unit.fn = "TransformGenerateResponse") =>
          /\ ~unit.err
          /\ unit.decoded.ok
          /\ unit.decoded.members = GenerateMembers
          /\ unit.decoded.done = TRUE
          /\ ParsesRFC3339(unit.decoded.created_at)
          /\ unit.decoded.model = CoerceUTF8(unit.modelID)
          /\ unit.decoded.response = CoerceUTF8(unit.content)
          /\ ValidUTF8(unit.modelID)
                => unit.decoded.model = unit.modelID
          /\ ValidUTF8(unit.content)
                => unit.decoded.response = unit.content

C22_Witness ==
    /\ unit.step = "returned"
    /\ unit.fn = "handleGenerate"
    /\ unit.prompt = <<"a", "\"">>
    /\ unit.result = [kind |-> "text", text |-> <<"<", "\\">>]
    /\ unit.reply.status = StatusOK
    /\ UnmarshalGenerateResponse(unit.reply.body).response
          = <<"<", "\\">>

(* C23: once requests are served the registry is never written: no step   *)
(* of a chat, generate, show, list-models or list-tags request, successful *)
(* or failed or panicking, changes the rows of providers or of models, and *)
(* the startup phase, in which AddProvider and AddModel run, is not        *)
(* entered again.                                                          *)
C23_RegistryFrame ==
    [][phase = "serving" =>
          /\ UNCHANGED <<providers, models>>
          /\ phase' = "serving"]_vars

C23_Witness ==
    /\ phase = "serving"
    /\ Len(providers) = MaxProviders /\ Len(models) = MaxModels
    /\ Len(listed) = MaxListings
    /\ listed[1].status = StatusOK
    /\ listed[2].status = StatusInternalServerError

(* C24: no two envelopes produced by the process carry the same id,       *)
(* whichever handlers produced them and whenever.                          *)
C24_EnvelopeIDsUnique ==
    \A i, j \in 1..Len(unit.envelopes) :
        i # j => unit.envelopes[i].id # unit.envelopes[j].id

(* Two handlers running at once were given the same id. *)
C24_ConcurrentCollision ==
    \E i, j \in 1..Len(unit.envelopes) :
        /\ unit.envelopes[i].by # unit.envelopes[j].by
        /\ unit.envelopes[i].at = unit.envelopes[j].at
        /\ unit.envelopes[i].id = unit.envelopes[j].id

(* One handler was given the same id again a second later. *)
C24_WrapCollision ==
    \E i, j \in 1..Len(unit.envelopes) :
        /\ unit.envelopes[i].by = unit.envelopes[j].by
        /\ unit.envelopes[i].at.sec < unit.envelopes[j].at.sec
        /\ unit.envelopes[i].id = unit.envelopes[j].id

(* C25: once the server serves, no two active rows of models have the     *)
(* same model-id.                                                          *)
C25_ActiveModelIDsUnique ==
    phase = "serving" =>
        \A i, j \in 1..Len(models) :
            (i # j /\ models[i].active /\ models[j].active)
               => models[i].model_id # models[j].model_id

(* The same model-id was discovered at two active providers. *)
C25_SameIDAtTwoProviders ==
    /\ phase = "serving"
    /\ \E i, j \in 1..Len(models) :
          /\ models[i].active /\ models[j].active
          /\ models[i].model_id = models[j].model_id
          /\ models[i].provider_id # models[j].provider_id

(* The upstream answered with success and at least one reply. *)
AnsweredWithReply(answer) ==
    /\ answer.kind = "response"
    /\ answer.status = StatusOK
    /\ answer.parseable
    /\ answer.replies # <<>>

(* C26: Chat of every adapter returns an error and no text when the        *)
(* upstream answers with a status other than success or with a parseable   *)
(* body holding no reply; it returns text only for a success answer with   *)
(* at least one reply, and then the content of the first reply.            *)
C26_ChatFailsWithoutReply ==
    unit.step = "returned" =>
        /\ (/\ unit.answer.kind = "response"
            /\ \/ unit.answer.status # StatusOK
               \/ unit.answer.parseable /\ unit.answer.replies = <<>>)
              => unit.result.err # "nil" /\ unit.result.text = ""
        /\ unit.result.err = "nil"
              => /\ AnsweredWithReply(unit.answer)
                 /\ unit.result.text = unit.answer.replies[1]

(* The same for the OpenAI and the Anthropic adapter only. *)
C26_HoldsButForOllama ==
    unit.adapter # "ollama" => C26_ChatFailsWithoutReply

(* C27: the Anthropic payload loses nothing of the message list: its       *)
(* messages are the messages that are not system messages, in order, with  *)
(* their content and with role user or assistant, and the content of       *)
(* every system message is part of its system field.                       *)
C27_AnthropicLossless ==
    (unit.step = "returned" /\ unit.adapter = "anthropic") =>
        LET kept == SelectSeq(unit.messages, LAMBDA m : m.role # "system")
            sent == unit.payload.messages
        IN  /\ Len(sent) = Len(kept)
            /\ \A k \in 1..Len(kept) :
                  /\ sent[k].content = kept[k].content
                  /\ sent[k].role \in {"user", "assistant"}
            /\ \A k \in 1..Len(unit.messages) :
                  unit.messages[k].role = "system" =>
                     \E i \in 1..Len(unit.payload.system) :
                        unit.payload.system[i] = unit.messages[k].content

(* The part of C27 about the messages that are not system messages. *)
C27_NonSystemKept ==
    (unit.step = "returned" /\ unit.adapter = "anthropic") =>
        LET kept == SelectSeq(unit.messages, LAMBDA m : m.role # "system")
            sent == unit.payload.messages
        IN  /\ Len(sent) = Len(kept)
            /\ \A k \in 1..Len(kept) :
                  /\ sent[k].content = kept[k].content
                  /\ sent[k].role \in {"user", "assistant"}

(* The active providers for which an adapter exists. *)
AdaptedProviders ==
    {p \in 1..Len(providers) :
        providers[p].active /\ providers[p].name # "custom"}

(* The ids an upstream's GetModels may list. *)
FetchableIDs ==
    UNION {{f.ids[k] : k \in 1..Len(f.ids)} :
             f \in {g \in GetModelsResults : g.kind = "models"}}

(* Every entry of the listing reply r is owed to a provider with an        *)
(* adapter: to what its upstream lists or to one of its active rows.       *)
ListedByAdaptedOnly(r) ==
    /\ \A id \in ListedIDs(r) :
          \E p \in AdaptedProviders :
             \/ id \in FetchableIDs
             \/ \E k \in 1..Len(models) :
                   /\ models[k].provider_id = p /\ models[k].active
                   /\ models[k].model_id = id
    /\ "data" \in DOMAIN r.body =>
          \A k \in 1..Len(r.body.data) : r.body.data[k].owned_by # "custom"

(* The request resolved to a provider for which no adapter exists. *)
ResolvedToUnknownKind ==
    /\ Replied /\ ~fault
    /\ req.endpoint \in {"chat", "generate"}
    /\ prov # 0
    /\ providers[prov].name = "custom"

RepliedUnsupportedProvider ==
    /\ calls = <<>>
    /\ replies = <<ErrorResponse(StatusBadRequest,
                      <<"Unsupported provider: ", providers[prov].name>>)>>

(* C28 as stated: a chat or generate request whose model resolves to a     *)
(* provider without adapter is answered 400 'Unsupported provider: <name>' *)
(* with no upstream call, and no listing reply holds a model of such a     *)
(* provider.                                                               *)
C28_UnknownKindRejected ==
    /\ ResolvedToUnknownKind => RepliedUnsupportedProvider
    /\ \A i \in 1..Len(listed) :
          listed[i].status = StatusOK => ListedByAdaptedOnly(listed[i])

(* C28, amended: the same for generate and for a chat request whose body   *)
(* decodes as a chat request; a chat request whose body does not is        *)
(* answered 400 'Invalid request body', also without an upstream call.     *)
C28_UnknownKindRejectedIfWellFormed ==
    /\ ResolvedToUnknownKind =>
          /\ calls = <<>>
          /\ IF req.endpoint = "chat" /\ ~req.body.shapeOK
             THEN replies = <<ErrorResponse(StatusBadRequest,
                                <<"Invalid request body">>)>>
             ELSE RepliedUnsupportedProvider
    /\ \A i \in 1..Len(listed) :
          listed[i].status = StatusOK => ListedByAdaptedOnly(listed[i])

C28_Witness ==
    /\ ResolvedToUnknownKind
    /\ req.endpoint = "generate"
    /\ RepliedUnsupportedProvider

(* A listing leaves out the active rows of a provider without adapter. *)
C28_ListingSkipsUnknownKind ==
    /\ Len(listed) = 1 /\ listed[1].status = StatusOK
    /\ ListedIDs(listed[1]) = {}
    /\ \E k \in 1..Len(models) :
          /\ models[k].active
          /\ providers[models[k].provider_id].active
          /\ providers[models[k].provider_id].name = "custom"

(* C29: a storage error while the models of one provider are read does    *)
(* not end the scan: the model-id resolves to the first active provider    *)
(* owning it among those whose models could be read, and to NotFound if    *)
(* there is none.  (Model-ids with inactive records are left to C14.)      *)
C29_ScanSkipsFailedProvider ==
    LET m == req.body.model
        readable == ActiveOwnersOf(m) \ storeErr.models
    IN  (resolved /\ m # "" /\ ~storeErr.providers
            /\ RecordsOf(m) = ActiveRecordsOf(m)) =>
           IF readable = {} THEN providerName = ""
           ELSE \E p \in readable :
                   /\ \A q \in readable : p <= q
                   /\ providerName = providers[p].name

C29_Witness ==
    /\ resolved /\ req.body.model = "a-1"
    /\ storeErr.models = {1}
    /\ ActiveOwnersOf("a-1") = {1, 2}
    /\ RecordsOf("a-1") = ActiveRecordsOf("a-1")
    /\ providers[1].name = "openai" /\ providers[2].name = "ollama"
    /\ providerName = "ollama"

(* The only owner could not be read: NotFound. *)
C29_NotFoundAfterSkip ==
    /\ resolved /\ req.body.model = "a-1"
    /\ storeErr.models = {1, 2}
    /\ ActiveOwnersOf("a-1") = {1}
    /\ providerName = ""

(* The ids of the entries of a listing reply, in the order of the reply. *)
ListedIDSeq(r) ==
    IF "data" \in DOMAIN r.body
    THEN [k \in 1..Len(r.body.data) |-> r.body.data[k].id]
    ELSE [k \in 1..Len(r.body.models) |-> r.body.models[k].name]

(* A chat request naming id is not rejected with 'Unsupported model': with *)
(* the store answering, handleChat replies so exactly when the scan of the *)
(* registry finds no provider.                                             *)
Resolvable(id) == determineProviderFromModel(id, NoStoreErr) # ""

(* No id appears twice in one listing reply. *)
C30_NoDuplicateIDs ==
    \A i \in 1..Len(listed) :
        listed[i].status = StatusOK =>
           \A k, l \in 1..Len(ListedIDSeq(listed[i])) :
               k # l => ListedIDSeq(listed[i])[k] # ListedIDSeq(listed[i])[l]

(* C30: every id of a reply of list-models or list-tags is resolvable,     *)
(* the registry being as it was when the reply was made, and no id         *)
(* appears twice in one reply.                                             *)
C30_ListedIsResolvable ==
    /\ C30_NoDuplicateIDs
    /\ \A i \in 1..Len(listed) :
          listed[i].status = StatusOK =>
             \A id \in ListedIDs(listed[i]) : Resolvable(id)

(* A listing names a model that only the upstream knows. *)
C30_ListedButUnresolvable ==
    /\ Len(listed) = 1 /\ listed[1].status = StatusOK
    /\ "c-9" \in ListedIDs(listed[1])
    /\ ~Resolvable("c-9")

=============================================================================
